---- MODULE Spec2Model ----
(***************************************************************************)
(* AceReserve: reservation lifecycle, pricing and loyalty tiers.           *)
(*                                                                         *)
(* Times are minutes on one calendar day (18:30 is 1110), money is integer *)
(* cents, and an optional value (Python None / x) is the sequence <<>> or  *)
(* <<x>>.  A ReservationService works through one SQLAlchemy session:      *)
(* `reservations` are the committed rows, `session` the rows as the open   *)
(* session sees them (its identity map and autoflushed, uncommitted        *)
(* changes).  A commit makes the two equal; closing the session discards   *)
(* what was not committed.                                                 *)
(***************************************************************************)
EXTENDS Integers, Sequences, FiniteSets, TLC

\* ------------------------------------------------------------------ bounds
MaxRes == 2
MaxUsers == 4
MaxTicks == 1
MaxAdjust == 2

\* --------------------------------------------------------- program constants
LIGHTING_START_HOUR == 19
POINTS_PER_HOUR == 10
RACKET_PRICE == 500
BALLS_PRICE == 300
LIGHTING_PRICE == 1000
SILVER_POINTS == 50
GOLD_POINTS == 150
PLATINUM_POINTS == 300
MIN_DURATION == 30

None == <<>>
Some(x) == <<x>>

\* DISCOUNTS, in hundredths
DISCOUNTS(level) ==
    CASE level = "beginner" -> 0
      [] level = "silver" -> 5
      [] level = "gold" -> 10
      [] level = "platinum" -> 15
      [] OTHER -> 0

\* The courts table: number -> row.  Court 3 does not exist.
Courts ==
    (1 :> [has_lighting |-> TRUE, price_per_hour |-> 2500]) @@
    (2 :> [has_lighting |-> FALSE, price_per_hour |-> 3000])

\* The services table: id -> row.  Service 1 is a coached service of user 2;
\* service 2 needs no coach; service 3 is a service of user 2 that does not
\* require the coach.  Service 9 does not exist.
Services ==
    (1 :> [coach_id |-> Some(2), requires_coach |-> TRUE]) @@
    (2 :> [coach_id |-> None, requires_coach |-> FALSE]) @@
    (3 :> [coach_id |-> Some(2), requires_coach |-> FALSE])

VARIABLES
    users,         \* users table: id -> role
    userSeq,       \* last user id handed out
    loyalty,       \* loyalty_accounts table: user_id -> [points, level]
    reservations,  \* reservations table, committed: id (index) -> row
    session,       \* the same rows as the open session sees them
    now,           \* datetime.now(timezone.utc)
    adjusts,       \* number of point adjustments made
    inflight,      \* requests being served concurrently: slot -> its progress
    last           \* the last call: operation and outcome

vars == <<users, userSeq, loyalty, reservations, session, now, adjusts, inflight, last>>

\* ------------------------------------------------------------ pure helpers

\* datetime.hour
Hour(t) == (t \div 60) % 24

\* ReservationService._calculate_end_time
calculate_end_time(start_time, duration_minutes) == start_time + duration_minutes

\* quantize without the rounding argument: the context default ROUND_HALF_EVEN
QuantizeHalfEven(num, den) ==
    LET a == IF num >= 0 THEN num ELSE 0 - num
        q == a \div den
        r == a % den
        n == IF 2 * r > den \/ (2 * r = den /\ q % 2 = 1) THEN q + 1 ELSE q
    IN IF num >= 0 THEN n ELSE 0 - n

\* Decimal.quantize(Decimal("0.01"), ROUND_HALF_UP) of num/den cents, den > 0:
\* half-way cases go away from zero.
QuantizeHalfUp(num, den) ==
    IF num >= 0 THEN (2 * num + den) \div (2 * den)
    ELSE 0 - ((2 * (0 - num) + den) \div (2 * den))

\* PricingService.calculate_price; acct is user.loyalty (<<>> when absent).
\* base_price is kept in sixtieths of a cent, discount_amount in 6000ths.
calculate_price(court, data, acct) ==
    LET base_price60 == court.price_per_hour * data.duration_minutes
        extras_cost == (IF data.rent_racket THEN RACKET_PRICE ELSE 0)
                     + (IF data.rent_balls THEN BALLS_PRICE ELSE 0)
                     + (IF data.wants_lighting THEN LIGHTING_PRICE ELSE 0)
        total_before_discount60 == base_price60 + 60 * extras_cost
        level == IF acct # None THEN acct[1].level ELSE "beginner"
        discount_percent == DISCOUNTS(level)
        discount_amount6000 == total_before_discount60 * discount_percent
        final_price6000 == 100 * total_before_discount60 - discount_amount6000
    IN QuantizeHalfUp(final_price6000, 6000)

Max(a, b) == IF a >= b THEN a ELSE b

\* points for whole hours only: int(duration_minutes / 60) * 10
calculate_earned_points_whole_hours(duration_minutes) ==
    (duration_minutes \div 60) * POINTS_PER_HOUR

\* PricingService.calculate_earned_points: int((duration_minutes / 60) * 10)
calculate_earned_points(duration_minutes) ==
    IF duration_minutes >= 0
    THEN (duration_minutes * POINTS_PER_HOUR) \div 60
    ELSE 0 - (((0 - duration_minutes) * POINTS_PER_HOUR) \div 60)

\* the thresholds compared with > instead of >=
update_loyalty_level_strict(account, points_change) ==
    LET points == Max(account.points + points_change, 0)
    IN [points |-> points,
        level |-> IF points > PLATINUM_POINTS THEN "platinum"
                  ELSE IF points > GOLD_POINTS THEN "gold"
                  ELSE IF points > SILVER_POINTS THEN "silver"
                  ELSE "beginner"]

\* the balance not clamped at 0
update_loyalty_level_unclamped(account, points_change) ==
    LET points == account.points + points_change
    IN [points |-> points,
        level |-> IF points >= PLATINUM_POINTS THEN "platinum"
                  ELSE IF points >= GOLD_POINTS THEN "gold"
                  ELSE IF points >= SILVER_POINTS THEN "silver"
                  ELSE "beginner"]

\* LoyaltyService._update_loyalty_level
update_loyalty_level(account, points_change) ==
    LET points == Max(account.points + points_change, 0)
    IN [points |-> points,
        level |-> IF points >= PLATINUM_POINTS THEN "platinum"
                  ELSE IF points >= GOLD_POINTS THEN "gold"
                  ELSE IF points >= SILVER_POINTS THEN "silver"
                  ELSE "beginner"]

\* user.loyalty, read from table loy
user_loyalty(loy, u) == IF u \in DOMAIN loy THEN Some(loy[u]) ELSE None

\* ------------------------------------------------------------- validators

\* a query that only finds reservations starting inside the requested window
court_conflicts_started_inside(rows, court_number, start_time, end_time, exclude) ==
    { i \in DOMAIN rows :
        /\ rows[i].court_number = court_number
        /\ rows[i].status # "Cancelled"
        /\ rows[i].start_time >= start_time
        /\ rows[i].start_time < end_time
        /\ (exclude # None => i # exclude[1]) }

\* a query that does not leave out the reservation being modified
court_conflicts_own_row_counted(rows, court_number, start_time, end_time, exclude) ==
    { i \in DOMAIN rows :
        /\ rows[i].court_number = court_number
        /\ rows[i].status # "Cancelled"
        /\ rows[i].start_time < end_time
        /\ rows[i].end_time > start_time }

\* a query on closed intervals: touching endpoints count as a conflict
court_conflicts_closed_intervals(rows, court_number, start_time, end_time, exclude) ==
    { i \in DOMAIN rows :
        /\ rows[i].court_number = court_number
        /\ rows[i].status # "Cancelled"
        /\ rows[i].start_time <= end_time
        /\ rows[i].end_time >= start_time
        /\ (exclude # None => i # exclude[1]) }

\* The rows of _validate_court_availability's query (lines 72-80).
court_conflicts(rows, court_number, start_time, end_time, exclude) ==
    { i \in DOMAIN rows :
        /\ rows[i].court_number = court_number
        /\ rows[i].status # "Cancelled"
        /\ rows[i].start_time < end_time
        /\ rows[i].end_time > start_time
        /\ (exclude # None => i # exclude[1]) }

\* the conflict query runs before the start time is compared with the clock
validate_court_availability_conflict_first(rows, t, court_number, start_time, end_time, exclude) ==
    IF court_conflicts(rows, court_number, start_time, end_time, exclude) # {}
    THEN "DoubleCourtBookingError"
    ELSE IF start_time < t THEN "StartTimeError"
    ELSE "none"

\* ReservationService._validate_court_availability: the error raised
validate_court_availability(rows, t, court_number, start_time, end_time, exclude) ==
    IF start_time < t THEN "StartTimeError"
    ELSE IF court_conflicts(rows, court_number, start_time, end_time, exclude) # {}
         THEN "DoubleCourtBookingError"
    ELSE "none"

\* ReservationService._validate_coach_availability
validate_coach_availability(rows, coach_id, start_time, end_time) ==
    IF coach_id = None THEN "none"
    ELSE IF \E i \in DOMAIN rows :
              /\ rows[i].service_id # None
              /\ rows[i].service_id[1] \in DOMAIN Services
              /\ Services[rows[i].service_id[1]].coach_id = coach_id
              /\ rows[i].status # "Cancelled"
              /\ rows[i].start_time < end_time
              /\ rows[i].end_time > start_time
         THEN "DoubleCoachBookingError"
    ELSE "none"

\* the hour is tested before the court's lighting
validate_lighting_requirements_hour_first(court, start_time, wants_lighting) ==
    IF ~wants_lighting THEN "none"
    ELSE IF Hour(start_time) < LIGHTING_START_HOUR THEN "LightingTimeError"
    ELSE IF ~court.has_lighting THEN "LightingAvailabilityError"
    ELSE "none"

\* lighting only after the hour of LIGHTING_START_HOUR has passed
validate_lighting_requirements_after_hour(court, start_time, wants_lighting) ==
    IF ~wants_lighting THEN "none"
    ELSE IF ~court.has_lighting THEN "LightingAvailabilityError"
    ELSE IF Hour(start_time) <= LIGHTING_START_HOUR THEN "LightingTimeError"
    ELSE "none"

\* ReservationService._validate_lighting_requirements
validate_lighting_requirements(court, start_time, wants_lighting) ==
    IF ~wants_lighting THEN "none"
    ELSE IF ~court.has_lighting THEN "LightingAvailabilityError"
    ELSE IF Hour(start_time) < LIGHTING_START_HOUR THEN "LightingTimeError"
    ELSE "none"

\* the service is looked up and the coach's calendar is not
validate_service_coach_unchecked(rows, service_id, start_time, end_time) ==
    IF service_id = None \/ service_id = Some(0) THEN "none"
    ELSE IF service_id[1] \notin DOMAIN Services THEN "ServiceNotFoundError"
    ELSE "none"

\* ReservationService._validate_service (`not service_id` also skips id 0)
validate_service(rows, service_id, start_time, end_time) ==
    IF service_id = None \/ service_id = Some(0) THEN "none"
    ELSE IF service_id[1] \notin DOMAIN Services THEN "ServiceNotFoundError"
    ELSE IF Services[service_id[1]].requires_coach
         THEN validate_coach_availability(
                  rows, Services[service_id[1]].coach_id, start_time, end_time)
    ELSE "none"

\* ---------------------------------------------------------------- records

NoPatch == [court_number |-> None, start_time |-> None, duration_minutes |-> None,
            rent_racket |-> None, rent_balls |-> None, wants_lighting |-> None,
            notes |-> None]

\* The requests that may be served at the same time
Slots == {1, 2}

\* What the last call was and how it ended ("none": it returned)
Call(op, err) == [op |-> op, err |-> err]

\* ---------------------------------------------------------------- actions

Init ==
    /\ users = (1 :> "admin") @@ (2 :> "coach") @@ (3 :> "user")
    /\ userSeq = 3
    /\ loyalty = (2 :> [points |-> 0, level |-> "beginner"])
                 @@ (3 :> [points |-> 0, level |-> "beginner"])
    /\ reservations = <<>>
    /\ session = <<>>
    /\ now = 18 * 60 + 20
    /\ adjusts = 0
    /\ inflight = [p \in Slots |-> None]
    /\ last = Call("init", "none")

\* UserService.create_user with _create_loyalty_account; email_taken says
\* whether a user with the given email exists.
create_user(email_taken) ==
    IF email_taken
    THEN /\ DOMAIN users # {}
         /\ last' = Call("create_user", "ExistingUserError")
         /\ UNCHANGED <<users, userSeq, loyalty, reservations, session, now, inflight, adjusts>>
    ELSE /\ userSeq < MaxUsers
         /\ userSeq' = userSeq + 1
         /\ users' = users @@ (userSeq' :> "user")
         /\ loyalty' = loyalty @@ (userSeq' :> [points |-> 0, level |-> "beginner"])
         /\ reservations' = session
         /\ last' = Call("create_user", "none")
         /\ UNCHANGED <<session, now, inflight, adjusts>>

\* The first error of process_reservation_creation's checks (lines 222-237)
creation_error(rows, t, data) ==
    LET end_time == calculate_end_time(data.start_time, data.duration_minutes)
        court_err == IF data.court_number \notin DOMAIN Courts THEN "CourtNotFoundError"
                     ELSE validate_court_availability(
                              rows, t, data.court_number, data.start_time, end_time, None)
    IN IF court_err # "none" THEN court_err
       ELSE LET light_err == validate_lighting_requirements(
                                 Courts[data.court_number], data.start_time,
                                 data.wants_lighting)
            IN IF light_err # "none" THEN light_err
               ELSE validate_service(rows, data.service_id, data.start_time, end_time)

\* an account opened for a requester who has none
update_user_loyalty_get_or_create(loy, u, duration_minutes) ==
    LET account == IF u \in DOMAIN loy THEN loy[u]
                   ELSE [points |-> 0, level |-> "beginner"]
        updated == update_loyalty_level(account, calculate_earned_points(duration_minutes))
    IN IF u \in DOMAIN loy THEN [loy EXCEPT ![u] = updated] ELSE loy @@ (u :> updated)

\* ReservationService._update_user_loyalty
update_user_loyalty(loy, u, duration_minutes) ==
    IF u \notin DOMAIN loy THEN loy
    ELSE [loy EXCEPT ![u] = update_loyalty_level(
                                @, calculate_earned_points(duration_minutes))]

\* the row priced after the points of this call were awarded
new_reservation_late_price(u, data, loy) ==
    [court_number |-> data.court_number,
     user_id |-> u,
     start_time |-> data.start_time,
     end_time |-> calculate_end_time(data.start_time, data.duration_minutes),
     duration_minutes |-> data.duration_minutes,
     status |-> "Confirmed",
     total_price |-> calculate_price(
                         Courts[data.court_number], data,
                         user_loyalty(update_user_loyalty(loy, u, data.duration_minutes), u)),
     service_id |-> data.service_id,
     rent_racket |-> data.rent_racket,
     rent_balls |-> data.rent_balls,
     wants_lighting |-> FALSE,
     notes |-> data.notes]

\* The row process_reservation_creation builds (lines 239-253); wants_lighting
\* is not passed to Reservation(...) and takes the column default False.
new_reservation(u, data, loy) ==
    [court_number |-> data.court_number,
     user_id |-> u,
     start_time |-> data.start_time,
     end_time |-> calculate_end_time(data.start_time, data.duration_minutes),
     duration_minutes |-> data.duration_minutes,
     status |-> "Confirmed",
     total_price |-> calculate_price(Courts[data.court_number], data, user_loyalty(loy, u)),
     service_id |-> data.service_id,
     rent_racket |-> data.rent_racket,
     rent_balls |-> data.rent_balls,
     wants_lighting |-> FALSE,
     notes |-> data.notes]

\* the points awarded before the checks run
creation_outcome_award_first(rows, loy, t, u, data) ==
    LET awarded == update_user_loyalty(loy, u, data.duration_minutes)
        err == creation_error(rows, t, data)
    IN IF err # "none"
       THEN [err |-> err, rows |-> rows, loy |-> awarded]
       ELSE [err |-> "none",
             rows |-> Append(rows, new_reservation(u, data, loy)),
             loy |-> awarded]

\* The outcome of process_reservation_creation by user u at time t on session
\* rows `rows` and loyalty table `loy`: the error raised, and the rows and
\* accounts it commits (unchanged when it raises).
creation_outcome(rows, loy, t, u, data) ==
    LET err == creation_error(rows, t, data)
    IN IF err # "none"
       THEN [err |-> err, rows |-> rows, loy |-> loy]
       ELSE [err |-> "none",
             rows |-> Append(rows, new_reservation(u, data, loy)),
             loy |-> update_user_loyalty(loy, u, data.duration_minutes)]

\* ReservationService.process_reservation_creation
process_reservation_creation(u, data) ==
    LET out == creation_outcome(session, loyalty, now, u, data)
    IN /\ u \in DOMAIN users
       /\ IF out.err # "none"
          THEN /\ last' = Call("create", out.err)
               /\ loyalty' = out.loy
               /\ UNCHANGED <<reservations, session>>
          ELSE /\ Len(session) < MaxRes
               /\ session' = out.rows
               /\ reservations' = out.rows
               /\ loyalty' = out.loy
               /\ last' = Call("create", "none")
       /\ UNCHANGED <<users, userSeq, now, inflight, adjusts>>

\* only the owner may cancel
may_cancel_owner_only(row, u, role) == row.user_id = u

\* The owner-or-administrator test of delete_reservation (line 290)
may_cancel(row, u, role) == ~(row.user_id # u /\ role # "admin")

\* a cancellation that takes back the points the reservation earned
delete_reservation_points_removed(u, id) ==
    /\ u \in DOMAIN users
    /\ IF id \notin DOMAIN session
       THEN /\ last' = Call("cancel", "ReservationNotFoundError")
            /\ UNCHANGED <<reservations, session, loyalty>>
       ELSE IF ~may_cancel(session[id], u, users[u])
       THEN /\ last' = Call("cancel", "ForbiddenActionError")
            /\ UNCHANGED <<reservations, session, loyalty>>
       ELSE /\ session' = [session EXCEPT ![id].status = "Cancelled"]
            /\ reservations' = session'
            /\ loyalty' = update_user_loyalty(loyalty, session[id].user_id,
                                              0 - session[id].duration_minutes)
            /\ last' = Call("cancel", "none")
    /\ UNCHANGED <<users, userSeq, now, inflight, adjusts>>

\* ReservationService.delete_reservation
delete_reservation(u, id) ==
    /\ u \in DOMAIN users
    /\ IF id \notin DOMAIN session
       THEN /\ last' = Call("cancel", "ReservationNotFoundError")
            /\ UNCHANGED <<reservations, session>>
       ELSE IF ~may_cancel(session[id], u, users[u])
       THEN /\ last' = Call("cancel", "ForbiddenActionError")
            /\ UNCHANGED <<reservations, session>>
       ELSE /\ session' = [session EXCEPT ![id].status = "Cancelled"]
            /\ reservations' = session'
            /\ last' = Call("cancel", "none")
    /\ UNCHANGED <<users, userSeq, loyalty, now, inflight, adjusts>>

\* ReservationCreate's validation of duration_minutes (Field(ge=30) and
\* enforce_valid_duration)
valid_duration(duration_minutes) ==
    duration_minutes >= MIN_DURATION /\ duration_minutes % 30 = 0

\* the end time is left as it was
patched_row_end_kept(row, patch) ==
    LET new_start_time == IF patch.start_time # None
                          THEN patch.start_time[1] ELSE row.start_time
        new_duration == IF patch.duration_minutes # None /\ patch.duration_minutes[1] # 0
                        THEN patch.duration_minutes[1] ELSE row.duration_minutes
    IN [row EXCEPT
          !.court_number = IF patch.court_number # None
                           THEN patch.court_number[1] ELSE @,
          !.start_time = new_start_time,
          !.duration_minutes = new_duration,
          !.rent_racket = IF patch.rent_racket # None THEN patch.rent_racket[1] ELSE @,
          !.rent_balls = IF patch.rent_balls # None THEN patch.rent_balls[1] ELSE @,
          !.wants_lighting = IF patch.wants_lighting # None
                             THEN patch.wants_lighting[1] ELSE @,
          !.notes = IF patch.notes # None THEN patch.notes ELSE @]

\* The row after modify_reservation's assignments of lines 350-362
patched_row(row, patch) ==
    LET new_start_time == IF patch.start_time # None
                          THEN patch.start_time[1] ELSE row.start_time
        new_duration == IF patch.duration_minutes # None /\ patch.duration_minutes[1] # 0
                        THEN patch.duration_minutes[1] ELSE row.duration_minutes
    IN [row EXCEPT
          !.court_number = IF patch.court_number # None
                           THEN patch.court_number[1] ELSE @,
          !.start_time = new_start_time,
          !.end_time = calculate_end_time(new_start_time, new_duration),
          !.duration_minutes = new_duration,
          !.rent_racket = IF patch.rent_racket # None THEN patch.rent_racket[1] ELSE @,
          !.rent_balls = IF patch.rent_balls # None THEN patch.rent_balls[1] ELSE @,
          !.wants_lighting = IF patch.wants_lighting # None
                             THEN patch.wants_lighting[1] ELSE @,
          !.notes = IF patch.notes # None THEN patch.notes ELSE @]

\* The error modify_reservation raises before it assigns anything
\* (lines 321-348)
modify_precheck(rows, t, role, u, id, patch) ==
    IF id \notin DOMAIN rows THEN "ReservationNotFoundError"
    ELSE IF rows[id].user_id # u /\ role # "admin" THEN "PermissionError"
    ELSE LET new == patched_row(rows[id], patch)
             time_changed == (new.start_time # rows[id].start_time)
                             \/ (new.duration_minutes # rows[id].duration_minutes)
             court_changed == new.court_number # rows[id].court_number
         IN IF time_changed \/ court_changed
            THEN validate_court_availability(
                     rows, t, new.court_number, new.start_time, new.end_time, Some(id))
            ELSE "none"

\* The error modify_reservation raises after its assignments (lines 364-379):
\* the court lookup, then ReservationCreate(...) validating the duration
modify_postcheck(new) ==
    IF new.court_number \notin DOMAIN Courts THEN "CourtNotFoundError"
    ELSE IF ~valid_duration(new.duration_minutes) THEN "ValidationError"
    ELSE "none"

\* modify_reservation's new price (lines 371-382), from the requester's tier
repriced_row(new, acct) ==
    [new EXCEPT !.total_price = calculate_price(Courts[new.court_number], new, acct)]

\* ReservationService.modify_reservation.  An error raised after the
\* assignments leaves them in the session (flushed by the court query, not
\* committed).
modify_reservation(u, id, patch) ==
    /\ u \in DOMAIN users
    /\ LET pre == modify_precheck(session, now, users[u], u, id, patch)
       IN IF pre # "none"
          THEN /\ last' = Call("modify", pre)
               /\ UNCHANGED <<reservations, session>>
          ELSE LET new == patched_row(session[id], patch)
                   post == modify_postcheck(new)
               IN IF post # "none"
                  THEN /\ session' = [session EXCEPT ![id] = new]
                       /\ last' = Call("modify", post)
                       /\ UNCHANGED reservations
                  ELSE /\ session' = [session EXCEPT
                                        ![id] = repriced_row(new, user_loyalty(loyalty, u))]
                       /\ reservations' = session'
                       /\ last' = Call("modify", "none")
    /\ UNCHANGED <<users, userSeq, loyalty, now, inflight, adjusts>>

\* CoachService.process_reservation_confirmation
process_reservation_confirmation(u, id) ==
    /\ u \in DOMAIN users
    /\ IF id \notin DOMAIN session
       THEN /\ last' = Call("confirm", "ReservationNotFoundError")
            /\ UNCHANGED <<reservations, session>>
       ELSE IF \/ session[id].service_id = None
               \/ session[id].service_id[1] \notin DOMAIN Services
       THEN /\ last' = Call("confirm", "ServiceNotChosenError")
            /\ UNCHANGED <<reservations, session>>
       ELSE IF Services[session[id].service_id[1]].coach_id # Some(u)
       THEN /\ last' = Call("confirm", "ForbiddenActionError")
            /\ UNCHANGED <<reservations, session>>
       ELSE /\ session' = [session EXCEPT ![id].status = "Confirmed"]
            /\ reservations' = session'
            /\ last' = Call("confirm", "none")
    /\ UNCHANGED <<users, userSeq, loyalty, now, inflight, adjusts>>

\* UserService.remove_user_by_admin; the loyalty account goes with the user
remove_user_by_admin(user_id) ==
    /\ IF user_id \notin DOMAIN users
       THEN /\ last' = Call("remove_user", "UserNotFoundError")
            /\ UNCHANGED <<users, loyalty, reservations, session>>
       ELSE /\ session' = [i \in DOMAIN session |->
                             IF session[i].user_id = user_id
                             THEN [session[i] EXCEPT !.status = "Cancelled"]
                             ELSE session[i]]
            /\ reservations' = session'
            /\ users' = [v \in DOMAIN users \ {user_id} |-> users[v]]
            /\ loyalty' = [v \in DOMAIN loyalty \ {user_id} |-> loyalty[v]]
            /\ last' = Call("remove_user", "none")
    /\ UNCHANGED <<userSeq, now, inflight, adjusts>>

\* an account is created for a user who has none
change_loyalty_points_get_or_create(u, adjustment) ==
    /\ u \in DOMAIN users
    /\ adjusts < MaxAdjust
    /\ adjusts' = adjusts + 1
    /\ loyalty' = IF u \in DOMAIN loyalty
                  THEN [loyalty EXCEPT ![u] = update_loyalty_level(@, adjustment)]
                  ELSE loyalty @@ (u :> update_loyalty_level(
                                            [points |-> 0, level |-> "beginner"],
                                            adjustment))
    /\ reservations' = session
    /\ last' = Call("adjust", "none")
    /\ UNCHANGED <<users, userSeq, session, now, inflight>>

\* LoyaltyService.change_loyalty_points
change_loyalty_points(u, adjustment) ==
    /\ u \in DOMAIN users
    /\ IF u \notin DOMAIN loyalty
       THEN /\ last' = Call("adjust", "LoyaltyAccountNotFoundError")
            /\ UNCHANGED <<loyalty, reservations, adjusts>>
       ELSE /\ adjusts < MaxAdjust
            /\ adjusts' = adjusts + 1
            /\ loyalty' = [loyalty EXCEPT ![u] = update_loyalty_level(@, adjustment)]
            /\ reservations' = session
            /\ last' = Call("adjust", "none")
    /\ UNCHANGED <<users, userSeq, session, now, inflight>>

\* UserService.create_user_by_admin: create_user, then the role is assigned
\* and committed.
create_user_by_admin(email_taken, role) ==
    IF email_taken
    THEN /\ DOMAIN users # {}
         /\ last' = Call("create_user_by_admin", "ExistingUserError")
         /\ UNCHANGED <<users, userSeq, loyalty, reservations, session, now, inflight, adjusts>>
    ELSE /\ userSeq < MaxUsers
         /\ userSeq' = userSeq + 1
         /\ users' = users @@ (userSeq' :> role)
         /\ loyalty' = loyalty @@ (userSeq' :> [points |-> 0, level |-> "beginner"])
         /\ reservations' = session
         /\ last' = Call("create_user_by_admin", "none")
         /\ UNCHANGED <<session, now, inflight, adjusts>>

\* The endpoint POST /loyalty/adjust: require_admin, then
\* change_loyalty_points(current_user, adjustment.points_change); the field
\* adjustment.user_id is not read.
adjust_loyalty_points(current_user, adjustment) ==
    /\ current_user \in DOMAIN users
    /\ IF users[current_user] # "admin"
       THEN /\ last' = Call("adjust", "HTTPException")
            /\ UNCHANGED <<users, userSeq, loyalty, reservations, session, now, inflight, adjusts>>
       ELSE change_loyalty_points(current_user, adjustment.points_change)

\* ValidationHelpers.validate_group_availability on session rows `rows`: the
\* query keeps the rows of the court and service that are not Cancelled and
\* lie inside the window (start_time >= start_time, end_time <= end_time); a
\* row of the requester raises DoubleCourtBookingError inside the loop, the
\* count is compared with max_capacity after it.
validate_group_availability(rows, court_number, start_time, end_time, service_id, max_capacity, user_id) ==
    LET overlapping_reservations ==
            { i \in DOMAIN rows :
                /\ rows[i].court_number = court_number
                /\ rows[i].service_id = service_id
                /\ rows[i].start_time >= start_time
                /\ rows[i].end_time <= end_time
                /\ rows[i].status # "Cancelled" }
        current_participants == Cardinality(overlapping_reservations)
    IN IF \E i \in overlapping_reservations : rows[i].service_id # service_id
       THEN "ForbiddenActionError"
       ELSE IF \E i \in overlapping_reservations : rows[i].user_id = user_id
       THEN "DoubleCourtBookingError"
       ELSE IF current_participants >= max_capacity THEN "ForbiddenActionError"
       ELSE "none"

\* A call of validate_group_availability through the open session
group_availability_call(court_number, start_time, end_time, service_id, max_capacity, user_id) ==
    /\ last' = Call("group", validate_group_availability(
                                 session, court_number, start_time, end_time,
                                 service_id, max_capacity, user_id))
    /\ UNCHANGED <<users, userSeq, loyalty, reservations, session, now, adjusts,
                   inflight>>

\* Concurrent requests.  Each request has a session of its own
\* (get_async_session) and runs as a coroutine that other requests interleave
\* with at its awaits; a query sees what is committed when it runs.  The
\* request in slot p goes through three steps.

\* get_current_user: session.get(User, id) loads the user and, with it
\* (lazy = "selectin"), the loyalty account as it is now.
begin_creation(p, u, data) ==
    /\ inflight[p] = None
    /\ u \in DOMAIN users
    /\ inflight' = [inflight EXCEPT ![p] =
                       Some([user_id |-> u, data |-> data,
                             acct |-> user_loyalty(loyalty, u), pc |-> "validate"])]
    /\ last' = Call("authenticate", "none")
    /\ UNCHANGED <<users, userSeq, loyalty, reservations, session, now, adjusts>>

\* The checks of process_reservation_creation (lines 220-236), on the rows
\* committed so far; nothing is locked and nothing is written.
validate_creation(p) ==
    /\ inflight[p] # None
    /\ inflight[p][1].pc = "validate"
    /\ LET err == creation_error(reservations, now, inflight[p][1].data)
       IN IF err # "none"
          THEN /\ inflight' = [inflight EXCEPT ![p] = None]
               /\ last' = Call("create", err)
          ELSE /\ inflight' = [inflight EXCEPT ![p] = Some([@[1] EXCEPT !.pc = "commit"])]
               /\ last' = Call("validated", "none")
    /\ UNCHANGED <<users, userSeq, loyalty, reservations, session, now, adjusts>>

\* The account row after the commit's UPDATE: the columns whose value changed
\* on the loaded object are written with the object's values, the others keep
\* what the store holds.
committed_account(stored, loaded, updated) ==
    [points |-> IF updated.points # loaded.points THEN updated.points ELSE stored.points,
     level |-> IF updated.level # loaded.level THEN updated.level ELSE stored.level]

\* The rest of process_reservation_creation (lines 238-260): the price and the
\* points are computed from the account loaded at authentication, the row is
\* inserted and the account updated in one commit.
commit_creation(p) ==
    /\ inflight[p] # None
    /\ inflight[p][1].pc = "commit"
    /\ Len(reservations) < MaxRes
    /\ LET u == inflight[p][1].user_id
           data == inflight[p][1].data
           acct == inflight[p][1].acct
           row == [new_reservation(u, data, loyalty) EXCEPT
                       !.total_price = calculate_price(Courts[data.court_number],
                                                       data, acct)]
       IN /\ reservations' = Append(reservations, row)
          /\ session' = reservations'
          /\ loyalty' = IF acct = None \/ u \notin DOMAIN loyalty THEN loyalty
                        ELSE [loyalty EXCEPT ![u] =
                                 committed_account(
                                     @, acct[1],
                                     update_loyalty_level(
                                         acct[1],
                                         calculate_earned_points(data.duration_minutes)))]
    /\ inflight' = [inflight EXCEPT ![p] = None]
    /\ last' = Call("create", "none")
    /\ UNCHANGED <<users, userSeq, now, adjusts>>

\* The clock moves on
Tick ==
    /\ now < (18 * 60 + 20) + 30 * MaxTicks
    /\ now' = now + 30
    /\ last' = Call("tick", "none")
    /\ UNCHANGED <<users, userSeq, loyalty, reservations, session, adjusts, inflight>>

\* The session is closed (get_async_session's `async with`): uncommitted
\* changes are rolled back
close_session ==
    /\ session # reservations
    /\ session' = reservations
    /\ last' = Call("close", "none")
    /\ UNCHANGED <<users, userSeq, loyalty, reservations, now, inflight, adjusts>>

\* ----------------------------------------------------------- specifications

\* Requests: ReservationCreate values
Requests(courts, starts, durations, services, extras) ==
    { [court_number |-> c, start_time |-> s, duration_minutes |-> d,
       service_id |-> sv, rent_racket |-> e[1], rent_balls |-> e[2],
       wants_lighting |-> e[3], notes |-> None] :
      c \in courts, s \in starts, d \in durations, sv \in services, e \in extras }

NoExtras == <<FALSE, FALSE, FALSE>>
AllExtras == <<TRUE, TRUE, TRUE>>

UserIds == 1 .. MaxUsers + 1
ResIds == 1 .. MaxRes + 1

NotesOnly == [NoPatch EXCEPT !.notes = Some("n")]

\* Spec: every operation.  Requests cover each error of creation.
CreateInputs ==
    Requests({1}, {19 * 60}, {60}, {None, Some(1)}, {AllExtras})
    \cup Requests({2}, {19 * 60}, {60}, {Some(1)}, {NoExtras, AllExtras})
    \cup Requests({1, 3}, {18 * 60 + 30}, {60}, {Some(9)}, {NoExtras, AllExtras})

ModifyInputs == { NotesOnly, [NoPatch EXCEPT !.court_number = Some(3)] }

Next ==
    \/ \E data \in CreateInputs : process_reservation_creation(3, data)
    \/ \E u \in UserIds, id \in ResIds, patch \in ModifyInputs :
          modify_reservation(u, id, patch)
    \/ \E u \in UserIds, id \in ResIds : delete_reservation(u, id)
    \/ \E u \in UserIds, id \in ResIds : process_reservation_confirmation(u, id)
    \/ remove_user_by_admin(3)
    \/ Tick
    \/ close_session

Spec == Init /\ [][Next]_vars

\* SpecLifecycle: create, modify and cancel only, each run to completion, with
\* the windows 18:30-19:00, 18:30-19:30, 19:00-19:30, 19:00-20:00.
LifecycleCreateInputs ==
    Requests({1}, {18 * 60 + 30, 19 * 60}, {30, 60}, {None}, {NoExtras})

LifecycleModifyInputs ==
    { [NoPatch EXCEPT !.court_number = Some(c)] : c \in {1, 2, 3} }
    \cup { [NoPatch EXCEPT !.start_time = Some(t)] : t \in {18 * 60 + 30, 19 * 60} }
    \cup { [NoPatch EXCEPT !.duration_minutes = Some(d)] : d \in {60} }

NextLifecycle ==
    \/ \E data \in LifecycleCreateInputs : process_reservation_creation(3, data)
    \/ \E id \in ResIds, patch \in LifecycleModifyInputs :
          modify_reservation(3, id, patch)
    \/ \E id \in ResIds : delete_reservation(3, id)
    \/ Tick
    \/ close_session

SpecLifecycle == Init /\ [][NextLifecycle]_vars

\* SpecAccounts: registration, reservation creation and point adjustment.
AccountCreateInputs ==
    Requests({1}, {18 * 60 + 30, 19 * 60}, {30, 60}, {None}, {NoExtras})

AdjustInputs == {40, 140, 150, 0 - 60}

NextAccounts ==
    \/ \E taken \in BOOLEAN : create_user(taken)
    \/ \E u \in UserIds, data \in AccountCreateInputs :
          process_reservation_creation(u, data)
    \/ \E u \in UserIds, d \in AdjustInputs : change_loyalty_points(u, d)

SpecAccounts == Init /\ [][NextAccounts]_vars

\* SpecValidation: the checks of process_reservation_creation, on requests
\* that differ in court, start, duration, service and extras, against what
\* earlier creates and cancels have stored; the clock passes 18:30.
LightingOnly == <<FALSE, FALSE, TRUE>>

ValidationInputs ==
    Requests({1, 2, 3}, {18 * 60, 18 * 60 + 30, 19 * 60, 19 * 60 + 30, 20 * 60},
             {30, 60}, {None}, {NoExtras})
    \cup Requests({1, 2}, {18 * 60, 18 * 60 + 30, 19 * 60, 20 * 60},
                  {60}, {None}, {LightingOnly, AllExtras})
    \cup Requests({1}, {22 * 60, 30 * 60}, {60}, {None}, {NoExtras})
    \cup Requests({1, 3}, {18 * 60, 19 * 60}, {60}, {Some(1), Some(9)}, {NoExtras})

NextValidation ==
    \/ \E data \in ValidationInputs : process_reservation_creation(3, data)
    \/ \E id \in ResIds : delete_reservation(3, id)
    \/ Tick

SpecValidation == Init /\ [][NextValidation]_vars

\* SpecCoach: reservations with and without services, some of the coach's, on
\* both courts, created, moved in time, given lighting and cancelled by one
\* user.
CoachCreateInputs ==
    Requests({1, 2}, {18 * 60, 19 * 60, 20 * 60}, {60},
             {None, Some(1), Some(2), Some(3), Some(9)}, {NoExtras})

CoachModifyInputs ==
    { [NoPatch EXCEPT !.start_time = Some(t)] : t \in {19 * 60 + 30, 20 * 60} }
    \cup { [NoPatch EXCEPT !.wants_lighting = Some(TRUE)] }

NextCoach ==
    \/ \E data \in CoachCreateInputs : process_reservation_creation(3, data)
    \/ \E id \in ResIds, patch \in CoachModifyInputs : modify_reservation(3, id, patch)
    \/ \E id \in ResIds : delete_reservation(3, id)

SpecCoach == Init /\ [][NextCoach]_vars

\* SpecGroup: the group-capacity check on the window 19:00-20:00 of court 1,
\* against reservations of two users that lie inside the window, across its
\* edges and outside it.
GroupCreateInputs ==
    Requests({1}, {18 * 60 + 30, 19 * 60, 19 * 60 + 30}, {30, 60},
             {None, Some(2)}, {NoExtras})

GroupCapacities == {1, 2}

NextGroup ==
    \/ \E u \in {2, 3}, data \in GroupCreateInputs : process_reservation_creation(u, data)
    \/ \E u \in {2, 3}, id \in ResIds : delete_reservation(u, id)
    \/ \E service_id \in {None, Some(2)}, max_capacity \in GroupCapacities,
          user_id \in {2, 3} :
          group_availability_call(1, 19 * 60, 20 * 60, service_id, max_capacity, user_id)

SpecGroup == Init /\ [][NextGroup]_vars

\* SpecConcurrent: two create requests of user 3 in flight at once.
ConcurrentInputs ==
    Requests({1, 2}, {19 * 60, 19 * 60 + 30, 20 * 60}, {30, 60}, {None}, {NoExtras})

NextConcurrent ==
    \E p \in Slots :
        \/ \E data \in ConcurrentInputs : begin_creation(p, 3, data)
        \/ validate_creation(p)
        \/ commit_creation(p)

SpecConcurrent == Init /\ [][NextConcurrent]_vars

\* SpecAdjust: accounts of every role are created, points are earned by
\* reservations, and administrators call the adjustment endpoint.
LoyaltyAdjusts == [user_id : UserIds, points_change : AdjustInputs]

NextAdjust ==
    \/ \E taken \in BOOLEAN, role \in {"user", "admin"} :
          create_user_by_admin(taken, role)
    \/ \E data \in Requests({1}, {19 * 60}, {60}, {None}, {NoExtras}) :
          process_reservation_creation(3, data)
    \/ \E u \in UserIds, adjustment \in LoyaltyAdjusts :
          adjust_loyalty_points(u, adjustment)

SpecAdjust == Init /\ [][NextAdjust]_vars

\* SpecPricing: calculate_price applied to every combination of a court rate,
\* a duration, the three extras and a loyalty account (or none).
PricingRates == {2500, 2501, 1999}
PricingDurations == {30, 60, 90, 120}
PricingAccounts ==
    {None} \cup { Some([points |-> 0, level |-> l]) :
                  l \in {"beginner", "silver", "gold", "platinum"} }

InitPricing ==
    /\ users = (1 :> "admin")
    /\ userSeq = 1
    /\ loyalty = << >>
    /\ reservations = << >>
    /\ session = << >>
    /\ now = 18 * 60 + 20
    /\ adjusts = 0
    /\ inflight = [p \in Slots |-> None]
    /\ \E rate \in PricingRates, acct \in PricingAccounts,
          data \in Requests({1}, {19 * 60}, PricingDurations, {None},
                            BOOLEAN \X BOOLEAN \X BOOLEAN) :
          last = [op |-> "arguments", err |-> "none",
                  court |-> [has_lighting |-> TRUE, price_per_hour |-> rate],
                  data |-> data, acct |-> acct, price |-> 0]

price_call ==
    /\ last.op = "arguments"
    /\ last' = [last EXCEPT !.op = "calculate_price",
                            !.price = calculate_price(last.court, last.data, last.acct)]
    /\ UNCHANGED <<users, userSeq, loyalty, reservations, session, now, inflight, adjusts>>

NextPricing == price_call

SpecPricing == InitPricing /\ [][NextPricing]_vars

\* -------------------------------------------------------------------- claims

\* The tier of a balance: platinum from 300, gold from 150, silver from 50
TierOf(points) ==
    CASE points < 50 -> "beginner"
      [] points >= 50 /\ points < 150 -> "silver"
      [] points >= 150 /\ points < 300 -> "gold"
      [] OTHER -> "platinum"

\* C4: a successful create persists exactly one new reservation, owned by the
\* requester, Confirmed, priced by calculate_price with the tier the requester
\* held before this call's points were awarded.
C4_CreatePersistsOne ==
    [][\A u \in UserIds, data \in AccountCreateInputs :
          (process_reservation_creation(u, data) /\ last'.err = "none")
          => /\ Len(reservations') = Len(reservations) + 1
             /\ \A i \in DOMAIN reservations : reservations'[i] = reservations[i]
             /\ LET r == reservations'[Len(reservations')]
                IN /\ r.user_id = u
                   /\ r.status = "Confirmed"
                   /\ r.total_price = calculate_price(Courts[data.court_number], data,
                                                      user_loyalty(loyalty, u))]_vars

\* A create has just moved its requester from beginner to silver.
C4_Witness ==
    /\ last = Call("create", "none")
    /\ \E u \in DOMAIN loyalty :
          /\ loyalty[u].points \in {50, 55}
          /\ reservations[Len(reservations)].user_id = u

\* C5: a successful create by a requester with a loyalty account raises its
\* points by floor(duration_minutes / 60 * 10), recomputes its tier from the
\* new balance and changes no other account.
C5_CreateAwardsPoints ==
    [][\A u \in UserIds, data \in AccountCreateInputs :
          ( /\ process_reservation_creation(u, data)
            /\ last'.err = "none"
            /\ u \in DOMAIN loyalty )
          => LET gained == loyalty'[u].points - loyalty[u].points
             IN /\ 60 * gained <= 10 * data.duration_minutes
                /\ 10 * data.duration_minutes < 60 * (gained + 1)
                /\ (data.duration_minutes = 60 => gained = 10)
                /\ loyalty'[u].level = TierOf(loyalty'[u].points)
                /\ DOMAIN loyalty' = DOMAIN loyalty
                /\ \A v \in DOMAIN loyalty \ {u} : loyalty'[v] = loyalty[v]]_vars

\* A 30-minute create has been awarded while another account holds points.
C5_Witness ==
    /\ last = Call("create", "none")
    /\ reservations[Len(reservations)].duration_minutes = 30
    /\ \E u, v \in DOMAIN loyalty :
          /\ u # v
          /\ reservations[Len(reservations)].user_id = u
          /\ loyalty[u].points = 5
          /\ loyalty[v].points > 0

\* C6: every loyalty account's tier is the threshold function of its balance.
C6_TierMatchesBalance ==
    \A u \in DOMAIN loyalty : loyalty[u].level = TierOf(loyalty[u].points)

\* A create has taken an account from 290 to exactly 300 points.
C6_Witness ==
    /\ last = Call("create", "none")
    /\ \E u \in DOMAIN loyalty : loyalty[u].points = 300 /\ loyalty[u].level = "platinum"

\* C7: no balance is ever negative, and an adjustment of B by delta leaves
\* max(B + delta, 0).
C7_BalanceNeverNegative ==
    [][/\ \A v \in DOMAIN loyalty' : loyalty'[v].points >= 0
       /\ \A u \in UserIds, delta \in AdjustInputs :
             (change_loyalty_points(u, delta) /\ last'.err = "none")
             => loyalty'[u].points = IF loyalty[u].points + delta > 0
                                     THEN loyalty[u].points + delta ELSE 0]_vars

\* An adjustment below zero has been clamped: with no reservation made, every
\* balance is a sum of adjustments, and the last one left them all at 0.
C7_Witness ==
    /\ last = Call("adjust", "none")
    /\ reservations = << >>
    /\ adjusts = 2
    /\ \A u \in DOMAIN loyalty : loyalty[u].points = 0

\* The discount of a tier, in hundredths
DiscountOf(acct) ==
    IF acct = None THEN 0
    ELSE CASE acct[1].level = "beginner" -> 0
           [] acct[1].level = "silver" -> 5
           [] acct[1].level = "gold" -> 10
           [] acct[1].level = "platinum" -> 15

\* C8: calculate_price is (rate * minutes / 60 + extras) * (1 - discount)
\* rounded half-up to cents: the price p is the one integer number of cents
\* with p - 1/2 <= exact < p + 1/2 (amounts below in 12000ths of a cent).
C8_PriceFormula ==
    last.op = "calculate_price" =>
        LET d == last.data
            extras == (IF d.rent_racket THEN 500 ELSE 0)
                      + (IF d.rent_balls THEN 300 ELSE 0)
                      + (IF d.wants_lighting THEN 1000 ELSE 0)
            exact12000 == 2 * (last.court.price_per_hour * d.duration_minutes + 60 * extras)
                            * (100 - DiscountOf(last.acct))
        IN /\ 12000 * last.price - 6000 <= exact12000
           /\ exact12000 < 12000 * last.price + 6000
           /\ ( /\ last.court.price_per_hour = 2500 /\ d.duration_minutes = 60
                /\ extras = 0 /\ DiscountOf(last.acct) = 0 ) => last.price = 2500
           /\ ( /\ last.court.price_per_hour = 2500 /\ d.duration_minutes = 120
                /\ extras = 1800 /\ DiscountOf(last.acct) = 10 ) => last.price = 6120

\* A half-cent case was priced: 25.01 an hour for 30 minutes, no discount.
C8_Witness ==
    /\ last.op = "calculate_price"
    /\ last.court.price_per_hour = 2501
    /\ last.data.duration_minutes = 30
    /\ ~last.data.rent_racket /\ ~last.data.rent_balls /\ ~last.data.wants_lighting
    /\ last.acct = None
    /\ last.price = 1251

\* Two rows share an instant of their half-open intervals [start_time, end_time)
Overlap(r1, r2) ==
    \E t \in r1.start_time .. (r1.end_time - 1) : r2.start_time <= t /\ t < r2.end_time

\* C1: after any sequence of create, modify and cancel, no two stored
\* reservations that are not Cancelled, on the same court, overlap.
C1_NoCourtOverlap ==
    \A i, j \in DOMAIN reservations :
        ( /\ i < j
          /\ reservations[i].status # "Cancelled"
          /\ reservations[j].status # "Cancelled"
          /\ reservations[i].court_number = reservations[j].court_number )
        => ~Overlap(reservations[i], reservations[j])

\* A modify has put two standing reservations end to end on one court.
C1_Witness ==
    /\ last = Call("modify", "none")
    /\ \E i, j \in DOMAIN reservations :
          /\ reservations[i].status # "Cancelled"
          /\ reservations[j].status # "Cancelled"
          /\ reservations[i].court_number = reservations[j].court_number
          /\ reservations[i].end_time = reservations[j].start_time
          /\ reservations[i].start_time < reservations[i].end_time
          /\ reservations[j].start_time < reservations[j].end_time

\* C2: Cancelled is terminal: once a stored reservation is Cancelled, no
\* operation gives it another status.
C2_CancelledIsTerminal ==
    [][\A i \in DOMAIN reservations :
          reservations[i].status = "Cancelled" => reservations'[i].status = "Cancelled"]_vars

\* C3: a create that fails with any error leaves the stored reservations and
\* every loyalty account exactly as they were.
C3_FailedCreateChangesNothing ==
    [][(last'.op = "create" /\ last'.err # "none")
          => (reservations' = reservations /\ loyalty' = loyalty)]_vars

\* A create failed on a coach conflict, with a reservation stored and points
\* on the requester's account.
C3_Witness ==
    /\ last = Call("create", "DoubleCoachBookingError")
    /\ Len(reservations) > 0
    /\ 3 \in DOMAIN loyalty /\ loyalty[3].points > 0

\* C9: a notes-only modify, by its owner, of a reservation create has just
\* produced succeeds and keeps price, court, start, duration and extras.
C9_NotesOnlyRoundTrip ==
    [][\A u \in UserIds, id \in ResIds :
          ( /\ modify_reservation(u, id, NotesOnly)
            /\ last = Call("create", "none")
            /\ id = Len(reservations)
            /\ reservations[id].user_id = u )
          => ( /\ last'.err = "none"
               /\ reservations'[id].total_price = reservations[id].total_price
               /\ reservations'[id].court_number = reservations[id].court_number
               /\ reservations'[id].start_time = reservations[id].start_time
               /\ reservations'[id].duration_minutes = reservations[id].duration_minutes
               /\ reservations'[id].rent_racket = reservations[id].rent_racket
               /\ reservations'[id].rent_balls = reservations[id].rent_balls
               /\ reservations'[id].wants_lighting = reservations[id].wants_lighting )]_vars

\* C10: cancel of an existing reservation fails with ForbiddenActionError and
\* keeps the status when the requester is neither owner nor administrator;
\* otherwise it succeeds and the status is Cancelled, also if it was already.
C10_CancelPermission ==
    [][\A u \in UserIds, id \in ResIds :
          (delete_reservation(u, id) /\ id \in DOMAIN reservations)
          => IF reservations[id].user_id # u /\ users[u] # "admin"
             THEN /\ last'.err = "ForbiddenActionError"
                  /\ reservations'[id].status = reservations[id].status
             ELSE /\ last'.err = "none"
                  /\ reservations'[id].status = "Cancelled"]_vars

\* A cancel by someone else was refused while the reservation stands.
C10_Witness ==
    /\ last = Call("cancel", "ForbiddenActionError")
    /\ \E i \in DOMAIN reservations : reservations[i].status = "Confirmed"


\* C11: a modify by a requester who is neither the reservation's owner nor an
\* administrator fails with ForbiddenActionError, as cancel does, and leaves
\* the reservation unchanged.
C11_ModifyForbidden ==
    [][\A u \in UserIds, id \in ResIds, patch \in ModifyInputs :
          ( /\ modify_reservation(u, id, patch)
            /\ id \in DOMAIN session
            /\ session[id].user_id # u
            /\ users[u] # "admin" )
          => ( /\ last'.err = "ForbiddenActionError"
               /\ reservations' = reservations )]_vars


\* C12: the adjustment endpoint, called by an administrator with
\* (user_id, delta), sets the account of user_id to max(points + delta, 0)
\* with its tier recomputed and leaves every other account, the
\* administrator's own included, unchanged.
C12_AdjustNamedUser ==
    [][\A u \in UserIds, adjustment \in LoyaltyAdjusts :
          ( /\ adjust_loyalty_points(u, adjustment)
            /\ users[u] = "admin"
            /\ adjustment.user_id \in DOMAIN loyalty )
          => LET target == adjustment.user_id
                 points == Max(loyalty[target].points + adjustment.points_change, 0)
             IN /\ last'.err = "none"
                /\ DOMAIN loyalty' = DOMAIN loyalty
                /\ loyalty'[target] = [points |-> points, level |-> TierOf(points)]
                /\ \A v \in DOMAIN loyalty \ {target} : loyalty'[v] = loyalty[v]]_vars


\* C13: change_loyalty_points for a user who has no loyalty account fails
\* with LoyaltyAccountNotFoundError, creates no account and changes no
\* existing account.
C13_AdjustWithoutAccount ==
    [][\A u \in UserIds, d \in AdjustInputs :
          (change_loyalty_points(u, d) /\ u \notin DOMAIN loyalty)
          => ( /\ last'.err = "LoyaltyAccountNotFoundError"
               /\ loyalty' = loyalty )]_vars

\* An adjustment for a user without an account was refused while other
\* accounts hold points.
C13_Witness ==
    /\ last = Call("adjust", "LoyaltyAccountNotFoundError")
    /\ \E v \in DOMAIN users : v \notin DOMAIN loyalty
    /\ \E v \in DOMAIN loyalty : loyalty[v].points > 0


\* C14: a create whose start_time is strictly before the current instant
\* fails with StartTimeError, whatever the court number, duration, extras and
\* service id of the request and whatever is stored.
C14_PastStartAlwaysStartTimeError ==
    [][\A data \in ValidationInputs :
          (process_reservation_creation(3, data) /\ data.start_time < now)
          => last'.err = "StartTimeError"]_vars

\* C14, amended: a create that names an existing court and whose start_time
\* is strictly before the current instant fails with StartTimeError, whatever
\* its duration, extras and service id and whatever is stored, and nothing is
\* stored; naming a court that does not exist fails with CourtNotFoundError.
C14_PastStartOnExistingCourt ==
    [][\A data \in ValidationInputs :
          (process_reservation_creation(3, data) /\ data.start_time < now)
          => ( /\ last'.err = IF data.court_number \in DOMAIN Courts
                              THEN "StartTimeError" ELSE "CourtNotFoundError"
               /\ reservations' = reservations )]_vars

\* A create was refused for its start time after the clock had passed 18:30,
\* with a standing reservation that begins at 18:30 stored.
C14_Witness ==
    /\ last = Call("create", "StartTimeError")
    /\ now > 18 * 60 + 30
    /\ \E i \in DOMAIN reservations :
          /\ reservations[i].status = "Confirmed"
          /\ reservations[i].start_time = 18 * 60 + 30


\* C15: create enforces the operating hours: a request that starts before
\* 08:00 fails with ClubNotOpenError, one that starts at or after 22:00 fails
\* with ClubClosedError, and in both cases no reservation is persisted.
C15_OperatingHoursEnforced ==
    [][\A data \in ValidationInputs :
          process_reservation_creation(3, data)
          => ( /\ Hour(data.start_time) < 8
                    => ( /\ last'.err = "ClubNotOpenError"
                         /\ reservations' = reservations )
               /\ Hour(data.start_time) >= 22
                    => ( /\ last'.err = "ClubClosedError"
                         /\ reservations' = reservations ) )]_vars


\* A standing reservation of the stored rows occupies part of the window
\* [start_time, end_time) on the court
Occupied(rows, court_number, start_time, end_time) ==
    \E i \in DOMAIN rows :
        /\ rows[i].status # "Cancelled"
        /\ rows[i].court_number = court_number
        /\ \E t \in start_time .. (end_time - 1) :
              rows[i].start_time <= t /\ t < rows[i].end_time

\* C16: a create with wants_lighting on an existing court without lighting
\* fails with LightingAvailabilityError, whatever the start hour and whatever
\* reservations are stored.
C16_UnlitCourtAlwaysLightingAvailabilityError ==
    [][\A data \in ValidationInputs :
          ( /\ process_reservation_creation(3, data)
            /\ data.wants_lighting
            /\ data.court_number \in DOMAIN Courts
            /\ ~Courts[data.court_number].has_lighting )
          => last'.err = "LightingAvailabilityError"]_vars

\* C16, amended: a create with wants_lighting on an existing court without
\* lighting never stores anything; it fails with LightingAvailabilityError,
\* whatever the start hour, when the start is not in the past and the window
\* is free on the court, with StartTimeError when the start is in the past,
\* and otherwise with DoubleCourtBookingError.
C16_UnlitCourtNeverBooked ==
    [][\A data \in ValidationInputs :
          ( /\ process_reservation_creation(3, data)
            /\ data.wants_lighting
            /\ data.court_number \in DOMAIN Courts
            /\ ~Courts[data.court_number].has_lighting )
          => ( /\ reservations' = reservations
               /\ last'.err =
                    IF data.start_time < now THEN "StartTimeError"
                    ELSE IF Occupied(reservations, data.court_number, data.start_time,
                                     data.start_time + data.duration_minutes)
                         THEN "DoubleCourtBookingError"
                    ELSE "LightingAvailabilityError" )]_vars

\* Lighting was refused for the court's lack of it while the court without
\* lighting holds a standing reservation that begins at 20:00.
C16_Witness ==
    /\ last = Call("create", "LightingAvailabilityError")
    /\ \E i \in DOMAIN reservations :
          /\ reservations[i].status = "Confirmed"
          /\ ~Courts[reservations[i].court_number].has_lighting
          /\ reservations[i].start_time = 20 * 60


C18_HalfOpenOverlap ==
    [][\A data \in ValidationInputs :
          ( /\ process_reservation_creation(3, data)
            /\ data.court_number \in DOMAIN Courts
            /\ data.start_time >= now
            /\ validate_lighting_requirements(
                   Courts[data.court_number], data.start_time, data.wants_lighting) = "none"
            /\ validate_service(
                   reservations, data.service_id, data.start_time,
                   data.start_time + data.duration_minutes) = "none" )
          => LET requested_end == data.start_time + data.duration_minutes
                 blocked == \E i \in DOMAIN reservations :
                               /\ reservations[i].status # "Cancelled"
                               /\ reservations[i].court_number = data.court_number
                               /\ reservations[i].start_time < requested_end
                               /\ reservations[i].end_time > data.start_time
             IN /\ last'.err = "DoubleCourtBookingError" <=> blocked
                /\ ~blocked => ( /\ last'.err = "none"
                                 /\ Len(reservations') = Len(reservations) + 1 )]_vars

\* A create succeeded and stored a reservation that begins on the same court
\* at the instant a standing one ends.
C18_Witness ==
    /\ last = Call("create", "none")
    /\ Len(reservations) = 2
    /\ reservations[1].status = "Confirmed"
    /\ reservations[2].status = "Confirmed"
    /\ reservations[1].court_number = reservations[2].court_number
    /\ reservations[2].start_time = reservations[1].end_time


\* The court and window a patch asks for, its fields laid over the row's
Effective(row, patch) ==
    LET court == IF patch.court_number # None THEN patch.court_number[1]
                 ELSE row.court_number
        start == IF patch.start_time # None THEN patch.start_time[1] ELSE row.start_time
        duration == IF patch.duration_minutes # None THEN patch.duration_minutes[1]
                    ELSE row.duration_minutes
    IN [court_number |-> court, start_time |-> start, end_time |-> start + duration,
        duration_minutes |-> duration]

\* The patch changes the court, the start or the duration of the row
Moves(row, patch) ==
    LET new == Effective(row, patch)
    IN \/ new.court_number # row.court_number
       \/ new.start_time # row.start_time
       \/ new.duration_minutes # row.duration_minutes

\* Another standing reservation of rows, not id, overlaps window new
OthersOverlap(rows, id, new) ==
    \E j \in DOMAIN rows \ {id} :
        /\ rows[j].status # "Cancelled"
        /\ rows[j].court_number = new.court_number
        /\ rows[j].start_time < new.end_time
        /\ rows[j].end_time > new.start_time

C20_ExtrasStored ==
    [][\A data \in CreateInputs :
          ( /\ process_reservation_creation(3, data)
            /\ last'.err = "none" )
          => LET row == reservations'[Len(reservations')]
             IN /\ Len(reservations') = Len(reservations) + 1
                /\ row.rent_racket = data.rent_racket
                /\ row.rent_balls = data.rent_balls
                /\ row.wants_lighting = data.wants_lighting]_vars


\* C21: in every state reached by create, modify and cancel, every stored
\* reservation has end_time = start_time + duration_minutes.
C21_EndIsStartPlusDuration ==
    \A i \in DOMAIN reservations :
        reservations[i].end_time
            = reservations[i].start_time + reservations[i].duration_minutes

\* A modify has lengthened to 60 minutes the one reservation stored, which
\* was created for 30 minutes (5 points).
C21_Witness ==
    /\ last = Call("modify", "none")
    /\ Len(reservations) = 1
    /\ reservations[1].duration_minutes = 60
    /\ loyalty[3].points = 5


\* A standing reservation of rows, linked to a service of the coach, overlaps
\* the window [start_time, end_time)
CoachBusy(rows, coach, start_time, end_time) ==
    \E i \in DOMAIN rows :
        /\ rows[i].status # "Cancelled"
        /\ rows[i].service_id # None
        /\ rows[i].service_id[1] \in DOMAIN Services
        /\ Services[rows[i].service_id[1]].coach_id = Some(coach)
        /\ rows[i].start_time < end_time
        /\ rows[i].end_time > start_time

\* What C22 says of a request: the error the service check must give, or
\* "any" where it says nothing
ServiceRule(rows, data) ==
    IF data.service_id = None THEN "unchecked"
    ELSE IF data.service_id[1] \notin DOMAIN Services THEN "ServiceNotFoundError"
    ELSE IF /\ Services[data.service_id[1]].requires_coach
            /\ Services[data.service_id[1]].coach_id # None
            /\ CoachBusy(rows, Services[data.service_id[1]].coach_id[1],
                         data.start_time, data.start_time + data.duration_minutes)
         THEN "DoubleCoachBookingError"
    ELSE "any"

CoachOf(row) ==
    IF /\ row.service_id # None
       /\ row.service_id[1] \in DOMAIN Services
       /\ Services[row.service_id[1]].requires_coach
    THEN Services[row.service_id[1]].coach_id
    ELSE None

C29_StoredLightingIsValid ==
    \A i \in DOMAIN reservations :
        reservations[i].wants_lighting
        => /\ Courts[reservations[i].court_number].has_lighting
           /\ Hour(reservations[i].start_time) >= LIGHTING_START_HOUR


\* C27: cancel and modify never change any loyalty account: a cancellation
\* takes back no points, and a modification, whatever it does to duration or
\* price, awards and removes none.
C27_CancelModifyKeepLoyalty ==
    [][last'.op \in {"cancel", "modify"} => loyalty' = loyalty]_vars

\* A reservation that earned its owner points has been cancelled by a call
\* that succeeded, and the points are still on the account.
C27_Witness ==
    /\ last = Call("cancel", "none")
    /\ \E i \in DOMAIN reservations :
          /\ reservations[i].status = "Cancelled"
          /\ reservations[i].user_id \in DOMAIN loyalty
          /\ loyalty[reservations[i].user_id].points
                >= calculate_earned_points(reservations[i].duration_minutes)
          /\ calculate_earned_points(reservations[i].duration_minutes) > 0


\* C25: a modify that fails (StartTimeError, DoubleCourtBookingError,
\* CourtNotFoundError, invalid duration) writes nothing to the store, not even
\* when a later operation that succeeds commits through the same session: a
\* stored reservation changes only by a modify or a cancel that succeeds.
C25_FailedModifyWritesNothing ==
    [][\A i \in DOMAIN reservations :
          reservations'[i] # reservations[i]
          => last'.op \in {"modify", "cancel"} /\ last'.err = "none"]_vars


\* C24: a create by a requester who has no loyalty account, on a free court
\* at a start that is not past, succeeds: the reservation is stored for the
\* requester, Confirmed, at the undiscounted price; no account is created and
\* no account changes.
C24_CreateWithoutAccount ==
    [][\A u \in UserIds, data \in AccountCreateInputs :
          ( /\ process_reservation_creation(u, data)
            /\ u \notin DOMAIN loyalty
            /\ data.start_time >= now
            /\ ~Occupied(reservations, data.court_number, data.start_time,
                         data.start_time + data.duration_minutes) )
          => /\ last'.err = "none"
             /\ Len(reservations') = Len(reservations) + 1
             /\ LET r == reservations'[Len(reservations')]
                IN /\ r.user_id = u
                   /\ r.status = "Confirmed"
                   /\ 60 * r.total_price
                        = Courts[data.court_number].price_per_hour * data.duration_minutes
             /\ loyalty' = loyalty]_vars

\* A requester without an account has just booked, after another user's
\* booking earned that user points.
C24_Witness ==
    /\ last = Call("create", "none")
    /\ reservations[Len(reservations)].user_id \notin DOMAIN loyalty
    /\ \E v \in DOMAIN loyalty : loyalty[v].points > 0


\* The standing reservations of rows on the court and service whose interval
\* shares an instant with the window [start_time, end_time)
GroupOverlapping(rows, court_number, service_id, start_time, end_time) ==
    { i \in DOMAIN rows :
        /\ rows[i].status # "Cancelled"
        /\ rows[i].court_number = court_number
        /\ rows[i].service_id = service_id
        /\ rows[i].start_time < end_time
        /\ rows[i].end_time > start_time }

\* C26: validate_group_availability fails with ForbiddenActionError whenever
\* the reservations, not Cancelled, of other users on the same court and
\* service whose interval overlaps the requested window, those that overlap it
\* only in part included, number max_capacity or more.
C26_GroupCapacityCountsOverlaps ==
    [][\A service_id \in {None, Some(2)}, max_capacity \in GroupCapacities,
          user_id \in {2, 3} :
          LET others == GroupOverlapping(reservations, 1, service_id, 19 * 60, 20 * 60)
          IN ( /\ group_availability_call(1, 19 * 60, 20 * 60, service_id,
                                          max_capacity, user_id)
               /\ \A i \in others : reservations[i].user_id # user_id
               /\ Cardinality(others) >= max_capacity )
             => last'.err = "ForbiddenActionError"]_vars


\* C23: when creates for one court and overlapping windows run concurrently,
\* at most one of them persists a reservation: in every state each stored
\* reservation that is not Cancelled found its court free of the reservations
\* stored before it.
C23_ConcurrentCreatesOnePersists ==
    \A i \in DOMAIN reservations :
        reservations[i].status # "Cancelled"
        => ~Occupied(SubSeq(reservations, 1, i - 1), reservations[i].court_number,
                     reservations[i].start_time, reservations[i].end_time)

\* C30: when two creates of one user for slots that do not overlap have both
\* succeeded, concurrently or not, the user's balance is the initial balance
\* (0) plus the points earned for both durations, and the tier is the one of
\* that balance.
C30_ConcurrentCreatesKeepPoints ==
    ( /\ Len(reservations) = 2
      /\ reservations[1].user_id = reservations[2].user_id
      /\ reservations[1].user_id \in DOMAIN loyalty
      /\ ~Overlap(reservations[1], reservations[2]) )
    => LET account == loyalty[reservations[1].user_id]
       IN /\ account.points
               = calculate_earned_points(reservations[1].duration_minutes)
                 + calculate_earned_points(reservations[2].duration_minutes)
          /\ account.level = TierOf(account.points)

====
